---- MODULE Spec2Model ----
(***************************************************************************)
(* Model of prefab-tool: the command-line surface (src/prefab_tool/cli.py) *)
(* over the core it drives (parser, normalizer, validator, merge engine).  *)
(* The commands are translated from cli.py.  The core modules are not part *)
(* of the source tree at hand; their operators below follow the design     *)
(* document (sections 3, 4 and 8) and are marked as such.                  *)
(***************************************************************************)
EXTENDS Integers, Sequences, FiniteSets, TLC

VARIABLES
    cmd,     \* the command of this run: "merge", "validate", "normalize", "git-textconv"
    args,    \* the parsed command-line arguments (a record, per command)
    fs,      \* the file system: path -> file
    pc,      \* position of the command in its body
    loc,     \* the command's local variables (a record, per command)
    out,     \* what was written to stdout, in order
    err,     \* what was written to stderr, in order
    exit,    \* exit status of the process; Running until it ends
    calls,   \* the calls made to three_way_merge, in order
    writes,  \* the paths written with write_text, in order
    fs0      \* the file system as the command found it (history)

vars == <<cmd, args, fs, pc, loc, out, err, exit, calls, writes, fs0>>

Running == 0 - 1

-----------------------------------------------------------------------------
(* Bounds of the model.                                                    *)

MaxVal == 3        \* integer property values are 1..MaxVal
MaxObjs == 2       \* objects per document
MaxFiles == 2      \* files given to one validate run
MaxRuns == 2       \* successive runs of the normalize command on one file
MaxLines == 3      \* lines on the bridge's stdin in a session of several lines

-----------------------------------------------------------------------------
(* Values (section 3 of the design).  A scalar keeps its lexical form: a   *)
(* float is a decimal mantissa m with d >= 1 fractional digits, so that    *)
(* 1.0 = FloatVal(10, 1) and 1.00 = FloatVal(100, 2) are different texts of one      *)
(* number.                                                                 *)

IntVal(n) == [k |-> "int", m |-> n, d |-> 0]
FloatVal(mant, digits) == [k |-> "flt", m |-> mant, d |-> digits]
HexVal(mant, digits) == [k |-> "hex", m |-> mant, d |-> digits]
StrVal(n) == [k |-> "str", m |-> n, d |-> 0]
\* a reference {fileID: f, guid: g}; g = 0 stands for "no guid"
RefVal(f, g) == [k |-> "ref", m |-> f, d |-> g]
\* a four-component mapping {x: .., y: .., z: .., w: ..}
Map4(x, y, z, w) == [k |-> "map4", c |-> <<x, y, z, w>>]
\* a modification list: entries <<target fileID, property path, value>>,
\* the property path standing as a number in the order of the path strings
Mods(entries) == [k |-> "mods", c |-> entries]
\* the value of a key that is not there
NoVal == [k |-> "none", m |-> 0, d |-> 0]
\* a whole object standing as a candidate in a conflict marker
ObjVal(f) == [k |-> "object", m |-> f, d |-> 0]
\* an inline conflict marker carrying both candidate values
Conflict(o, t) == [k |-> "conflict", ours |-> o, theirs |-> t]

Pow10(n) == IF n = 0 THEN 1
            ELSE IF n = 1 THEN 10
            ELSE IF n = 2 THEN 100
            ELSE IF n = 3 THEN 1000
            ELSE IF n = 4 THEN 10000
            ELSE IF n = 5 THEN 100000
            ELSE IF n = 6 THEN 1000000
            ELSE 10000000

Abs(n) == IF n < 0 THEN -n ELSE n
Sgn(n) == IF n < 0 THEN -1 ELSE 1
Max2(a, b) == IF a >= b THEN a ELSE b

-----------------------------------------------------------------------------
(* Normalizer options (UnityPrefabNormalizer's keyword arguments).         *)

Options(sd, sm, nf, hx, nq, fp) ==
    [sort_documents |-> sd, sort_modifications |-> sm, normalize_floats |-> nf,
     use_hex_floats |-> hx, normalize_quaternions |-> nq, float_precision |-> fp]

DefaultPrecision == 6

\* UnityPrefabNormalizer() with no arguments
DefaultOptions == Options(TRUE, TRUE, TRUE, FALSE, TRUE, DefaultPrecision)

-----------------------------------------------------------------------------
(* Float rule (design 4.2, normalize_floats): fixed-precision decimal,     *)
(* trailing zeros trimmed, at least one fractional digit kept; or the      *)
(* lossless form when use_hex_floats is set.                               *)

RECURSIVE Trim(_, _)
Trim(mant, digits) ==
    IF digits > 1 /\ mant % 10 = 0 THEN Trim(mant \div 10, digits - 1)
    ELSE <<mant, digits>>

\* a >= 0 divided by q, rounded to the nearest integer, ties to even
RoundHalfEven(a, q) ==
    LET kk == a \div q
        r == a % q
    IN  IF 2 * r > q \/ (2 * r = q /\ kk % 2 = 1) THEN kk + 1 ELSE kk

FormatFloat(mant, digits, p) ==
    LET a == Abs(mant)
        r == IF digits > p THEN RoundHalfEven(a, Pow10(digits - p)) ELSE a
        dd == IF digits > p THEN p ELSE digits
        t == Trim(Sgn(mant) * r, dd)
    IN  FloatVal(t[1], t[2])

IsFloat(v) == v.k \in {"flt", "hex"}

NormalizeFloat(v, o) ==
    IF ~IsFloat(v) THEN v
    ELSE IF o.use_hex_floats
         THEN LET t == Trim(v.m, v.d) IN HexVal(t[1], t[2])
         ELSE FormatFloat(v.m, v.d, o.float_precision)

-----------------------------------------------------------------------------
(* Quaternion rule (design 4.2, normalize_quaternions): for a mapping      *)
(* {x, y, z, w} under an allow-listed property name, choose the            *)
(* representative with w >= 0 (at w = 0 the sign of the first nonzero of   *)
(* x, y, z decides) and renormalize to unit magnitude within floating      *)
(* tolerance.  The rule works on the components as the float rule renders  *)
(* them; the tolerance is the resolution 10^-precision of that rendering,  *)
(* and the representative is chosen on the components that are rendered,   *)
(* as the contract normalize(normalize(D)) == normalize(D) requires.  A    *)
(* value that is not four numeric components is left as it is.             *)

QuaternionProperties == {"m_LocalRotation"}

IsNumeric(v) == v.k \in {"int", "flt", "hex"}

IsQuaternion(v) ==
    v.k = "map4" /\ \A i \in 1..4 : IsNumeric(v.c[i])

\* the digits the four components are compared at
QuatDigits(c) == Max2(Max2(c[1].d, c[2].d), Max2(c[3].d, c[4].d))

\* the four mantissas at QuatDigits(c)
QuatMantissas(c) ==
    [i \in 1..4 |-> c[i].m * Pow10(QuatDigits(c) - c[i].d)]

QuatNormSq(x) == x[1] * x[1] + x[2] * x[2] + x[3] * x[3] + x[4] * x[4]

QuatNegate(x) ==
    \/ x[4] < 0
    \/ /\ x[4] = 0
       /\ \/ x[1] < 0
          \/ x[1] = 0 /\ x[2] < 0
          \/ x[1] = 0 /\ x[2] = 0 /\ x[3] < 0

\* |x| * 10^p / sqrt(n), rounded to the nearest integer (n >= x * x > 0)
RoundedRatio(x, n, p) ==
    LET a == Abs(x) * Pow10(p)
        kk == CHOOSE j \in 0..Pow10(p) :
                 /\ j = 0 \/ (2 * j - 1) * (2 * j - 1) * n <= 4 * a * a
                 /\ 4 * a * a < (2 * j + 1) * (2 * j + 1) * n
    IN  Sgn(x) * kk

\* the magnitude sqrt(n) / 10^digits is within 10^-p of 1:
\* (10^e - 10^(e-p))^2 <= n * 10^(2 * (e - digits)) <= (10^e + 10^(e-p))^2
\* at e the larger of digits and p, divided through by 10^(p - digits)
\* when p is the larger
WithinTolerance(n, digits, p) ==
    IF p <= digits
    THEN /\ (Pow10(digits) - Pow10(digits - p)) * (Pow10(digits) - Pow10(digits - p)) <= n
         /\ n <= (Pow10(digits) + Pow10(digits - p)) * (Pow10(digits) + Pow10(digits - p))
    ELSE IF n >= Pow10(digits) * Pow10(digits)
         THEN (n - Pow10(digits) * Pow10(digits)) * Pow10(p - digits) <= 2 * Pow10(digits)
         ELSE (Pow10(digits) * Pow10(digits) - n) * Pow10(p - digits) <= 2 * Pow10(digits) - 1

\* a rule that rescales every magnitude other than 0 and exactly 1
NeedsRescale_Exact(c, p) ==
    LET n == QuatNormSq(QuatMantissas(c))
        u == Pow10(QuatDigits(c))
    IN  n # 0 /\ n # u * u

\* a quaternion whose magnitude is not 0 and not 1 within the tolerance
\* 10^-p is rescaled
NeedsRescale(c, p) ==
    /\ QuatNormSq(QuatMantissas(c)) # 0
    /\ ~WithinTolerance(QuatNormSq(QuatMantissas(c)), QuatDigits(c), p)

\* -1 when the representative with w >= 0 is the negation, 1 otherwise
QuatSign(c) == IF QuatNegate(QuatMantissas(c)) THEN -1 ELSE 1

\* the mantissa x of a quaternion of squared magnitude n, rescaled to unit
\* magnitude and rendered at precision p
RescaledComponent(x, n, p) ==
    FormatFloat(IF x = 0 THEN 0 ELSE RoundedRatio(x, n, p), p, p)

\* component i of the components c brought to unit magnitude
QuatComponent(c, i, p) ==
    IF NeedsRescale(c, p)
    THEN RescaledComponent(QuatMantissas(c)[i], QuatNormSq(QuatMantissas(c)), p)
    ELSE c[i]

\* the representative with w >= 0 of the components c
QuatRepresentative(c) == [i \in 1..4 |-> [c[i] EXCEPT !.m = QuatSign(c) * @]]

NormalizeQuaternion(v, o) ==
    IF ~IsQuaternion(v) THEN v
    ELSE [k |-> "map4",
          c |-> QuatRepresentative([i \in 1..4 |-> QuatComponent(v.c, i, o.float_precision)])]

\* modification entries in (target fileID, property path) order
ModificationBefore(a, b) == a[1] < b[1] \/ (a[1] = b[1] /\ a[2] <= b[2])

RECURSIVE InsertModification(_, _)
InsertModification(s, e) ==
    IF s = <<>> THEN <<e>>
    ELSE IF ModificationBefore(s[1], e) THEN <<s[1]>> \o InsertModification(Tail(s), e)
    ELSE <<e>> \o s

\* sort_modifications: a stable sort of the entries
RECURSIVE SortModifications(_)
SortModifications(s) ==
    IF s = <<>> THEN <<>>
    ELSE InsertModification(SortModifications(SubSeq(s, 1, Len(s) - 1)), s[Len(s)])

\* the float rule on a scalar or on the four components of a mapping; the
\* modification rule on a modification list
NormalizeScalars(q, o) ==
    IF q.k = "mods"
    THEN IF o.sort_modifications THEN Mods(SortModifications(q.c)) ELSE q
    ELSE IF ~o.normalize_floats THEN q
    ELSE IF q.k = "map4"
         THEN [k |-> "map4", c |-> [i \in 1..4 |-> NormalizeFloat(q.c[i], o)]]
         ELSE NormalizeFloat(q, o)

\* one value of an object's content, under its property name
NormalizeValue(key, v, o) ==
    IF o.normalize_quaternions /\ key \in QuaternionProperties
    THEN NormalizeQuaternion(NormalizeScalars(v, o), o)
    ELSE NormalizeScalars(v, o)

-----------------------------------------------------------------------------
(* Document model and text (design 3, 4.1).  A text is a sequence of       *)
(* lines: a document header "--- !u!<class> &<fileID>", a property line    *)
(* "<key>: <value>", or a line the parser rejects.  An object is its       *)
(* class, its fileID and its content, a mapping from property name to      *)
(* value; a document is the sequence of its objects in file order.         *)

Header(c, f) == [t |-> "hdr", cls |-> c, fid |-> f, key |-> "", val |-> NoVal]
Prop(key, v) == [t |-> "prop", cls |-> "", fid |-> 0, key |-> key, val |-> v]
BadLine == [t |-> "bad", cls |-> "", fid |-> 0, key |-> "", val |-> NoVal]

Object(c, f, content) == [cls |-> c, fid |-> f, content |-> content]

NoContent == [key \in {} |-> NoVal]

\* the order property lines are written in; the key "" is the slot of a
\* conflict marker that concerns the whole object
KeyOrder ==
    <<"", "m_Name", "m_GameObject", "P", "Q", "m_LocalRotation", "m_Color", "m_Modifications">>

Value(content, key) == IF key \in DOMAIN content THEN content[key] ELSE NoVal

RECURSIVE ParseFrom(_, _, _)
ParseFrom(lines, i, acc) ==
    IF i > Len(lines) THEN [ok |-> TRUE, doc |-> acc]
    ELSE LET l == lines[i] IN
         IF l.t = "hdr"
         THEN ParseFrom(lines, i + 1, Append(acc, Object(l.cls, l.fid, NoContent)))
         ELSE IF l.t = "prop" /\ acc # <<>>
         THEN LET last == acc[Len(acc)]
                  content == [key \in DOMAIN last.content \cup {l.key} |->
                                 IF key = l.key THEN l.val ELSE last.content[key]]
              IN  ParseFrom(lines, i + 1,
                            [acc EXCEPT ![Len(acc)] = Object(last.cls, last.fid, content)])
         ELSE [ok |-> FALSE, doc |-> <<>>]

\* parse(text): the document, or a ParseError (ok = FALSE)
Parse(lines) == ParseFrom(lines, 1, <<>>)

RECURSIVE RenderContent(_, _)
RenderContent(content, i) ==
    IF i > Len(KeyOrder) THEN <<>>
    ELSE (IF KeyOrder[i] \in DOMAIN content
          THEN <<Prop(KeyOrder[i], content[KeyOrder[i]])>> ELSE <<>>)
         \o RenderContent(content, i + 1)

RenderObject(obj) == <<Header(obj.cls, obj.fid)>> \o RenderContent(obj.content, 1)

RECURSIVE Render(_)
Render(doc) ==
    IF doc = <<>> THEN <<>> ELSE RenderObject(Head(doc)) \o Render(Tail(doc))

-----------------------------------------------------------------------------
(* normalize(Document, options) (design 4.2).                              *)

\* obj put into the fileID-sorted sequence s after every object whose
\* fileID is not larger: a stable sort
RECURSIVE InsertByFileID(_, _)
InsertByFileID(s, obj) ==
    IF s = <<>> THEN <<obj>>
    ELSE IF Head(s).fid <= obj.fid THEN <<Head(s)>> \o InsertByFileID(Tail(s), obj)
    ELSE <<obj>> \o s

RECURSIVE SortDocuments(_)
SortDocuments(doc) ==
    IF doc = <<>> THEN <<>>
    ELSE InsertByFileID(SortDocuments(SubSeq(doc, 1, Len(doc) - 1)), doc[Len(doc)])

NormalizeObject(obj, o) ==
    Object(obj.cls, obj.fid,
           [key \in DOMAIN obj.content |-> NormalizeValue(key, obj.content[key], o)])

Normalize(doc, o) ==
    LET d == [i \in 1..Len(doc) |-> NormalizeObject(doc[i], o)]
    IN  IF o.sort_documents THEN SortDocuments(d) ELSE d

-----------------------------------------------------------------------------
(* Files.  A path names a text file, something that cannot be read as     *)
(* UTF-8 text (a binary file, or a directory: click.Path(exists=True)      *)
(* accepts both), or nothing.                                              *)

TextFile(lines) == [kind |-> "text", lines |-> lines]
UnreadableFile == [kind |-> "unreadable", lines |-> <<>>]
NoFile == [kind |-> "absent", lines |-> <<>>]

\* normalizer.normalize_file(path): the canonical text, or an exception
\* (ok = FALSE) when the file cannot be read as text or does not parse
normalize_file(file, o) ==
    IF file.kind # "text" THEN [ok |-> FALSE, text |-> <<>>]
    ELSE LET r == Parse(file.lines) IN
         IF ~r.ok THEN [ok |-> FALSE, text |-> <<>>]
         ELSE [ok |-> TRUE, text |-> Render(Normalize(r.doc, o))]

-----------------------------------------------------------------------------
(* three_way_merge(baseText, oursText, theirsText) (design 4.5): the three *)
(* inputs are normalized, aligned by fileID and reconciled per object and  *)
(* per property; the merged document is rendered in canonical form.        *)

NoObject == Object("", 0, NoContent)

FileIDs(doc) == {doc[i].fid : i \in 1..Len(doc)}

\* the object of the document with this fileID, NoObject when there is none
Lookup(doc, f) ==
    IF f \in FileIDs(doc)
    THEN doc[CHOOSE i \in 1..Len(doc) :
                 doc[i].fid = f /\ \A j \in (i + 1)..Len(doc) : doc[j].fid # f]
    ELSE NoObject

Present(obj) == obj # NoObject

\* the four rules at one leaf; a conflict when both sides changed it differently
LeafConflict(b, o, t) == o # t /\ o # b /\ t # b

MergeLeaf(b, o, t) ==
    IF o = t THEN o
    ELSE IF o = b THEN t
    ELSE IF t = b THEN o
    ELSE Conflict(o, t)

MergeContent(b, o, t) ==
    LET keys == DOMAIN b.content \cup DOMAIN o.content \cup DOMAIN t.content
        leaf(key) == MergeLeaf(Value(b.content, key), Value(o.content, key),
                               Value(t.content, key))
    IN  Object(o.cls, o.fid, [key \in {x \in keys : leaf(x) # NoVal} |-> leaf(key)])

\* an object with a marker for a conflict that concerns it as a whole
WithObjectConflict(obj, o, t) ==
    Object(obj.cls, obj.fid,
           [key \in DOMAIN obj.content \cup {""} |->
               IF key = ""
               THEN Conflict(IF Present(o) THEN ObjVal(o.fid) ELSE NoVal,
                             IF Present(t) THEN ObjVal(t.fid) ELSE NoVal)
               ELSE obj.content[key]])

\* the merged object of one fileID: a sequence of no or one object
MergeObject(b, o, t) ==
    IF ~Present(b)
    THEN IF ~Present(o) /\ ~Present(t) THEN <<>>
         ELSE IF ~Present(t) THEN <<o>>
         ELSE IF ~Present(o) THEN <<t>>
         ELSE IF o = t THEN <<o>>
         ELSE <<WithObjectConflict(o, o, t)>>
    ELSE IF ~Present(o) /\ ~Present(t) THEN <<>>
         ELSE IF ~Present(o)
              THEN IF t = b THEN <<>> ELSE <<WithObjectConflict(t, o, t)>>
         ELSE IF ~Present(t)
              THEN IF o = b THEN <<>> ELSE <<WithObjectConflict(o, o, t)>>
         ELSE IF o = b /\ t = b THEN <<b>>
         ELSE IF o = b THEN <<t>>
         ELSE IF t = b THEN <<o>>
         ELSE IF o = t THEN <<o>>
         ELSE <<MergeContent(b, o, t)>>

\* the conflicts of one fileID, as (fileID, property path, ours, theirs)
ObjectConflicts(f, b, o, t) ==
    IF Present(b) /\ Present(o) /\ Present(t)
    THEN {[fid |-> f, path |-> key,
           ours |-> Value(o.content, key), theirs |-> Value(t.content, key)] :
             key \in {x \in DOMAIN b.content \cup DOMAIN o.content \cup DOMAIN t.content :
                        LeafConflict(Value(b.content, x), Value(o.content, x),
                                     Value(t.content, x))}}
    ELSE IF \/ ~Present(b) /\ Present(o) /\ Present(t) /\ o # t
            \/ Present(b) /\ ~Present(o) /\ Present(t) /\ t # b
            \/ Present(b) /\ Present(o) /\ ~Present(t) /\ o # b
    THEN {[fid |-> f, path |-> "",
           ours |-> IF Present(o) THEN ObjVal(f) ELSE NoVal,
           theirs |-> IF Present(t) THEN ObjVal(f) ELSE NoVal]}
    ELSE {}

RECURSIVE MergeDocuments(_, _, _, _)
MergeDocuments(ids, b, o, t) ==
    IF ids = {} THEN <<>>
    ELSE LET f == CHOOSE x \in ids : \A y \in ids : x <= y
         IN  MergeObject(Lookup(b, f), Lookup(o, f), Lookup(t, f))
             \o MergeDocuments(ids \ {f}, b, o, t)

\* the merge of three normalized documents, with its conflict list
MergeNormalized(b, o, t) ==
    LET ids == FileIDs(b) \cup FileIDs(o) \cup FileIDs(t)
        cs == UNION {ObjectConflicts(f, Lookup(b, f), Lookup(o, f), Lookup(t, f)) :
                       f \in ids}
    IN  [ok |-> TRUE, text |-> Render(MergeDocuments(ids, b, o, t)),
         has_conflict |-> cs # {}, conflicts |-> cs]

\* a merge that aligns and renders its inputs as they come, not normalized
three_way_merge_NoNormalize(baseText, oursText, theirsText) ==
    MergeNormalized(Parse(baseText).doc, Parse(oursText).doc, Parse(theirsText).doc)

three_way_merge(baseText, oursText, theirsText) ==
    IF ~(Parse(baseText).ok /\ Parse(oursText).ok /\ Parse(theirsText).ok)
    THEN [ok |-> FALSE, text |-> <<>>, has_conflict |-> FALSE, conflicts |-> {}]
    ELSE MergeNormalized(Normalize(Parse(baseText).doc, DefaultOptions),
                         Normalize(Parse(oursText).doc, DefaultOptions),
                         Normalize(Parse(theirsText).doc, DefaultOptions))

-----------------------------------------------------------------------------
(* Input documents of the merge and git-textconv commands.  Object 1 has   *)
(* an integer property P and a float property Q and differs from the       *)
(* reference object (P = 1, Q = 1.0) in at most one of them; Q comes in    *)
(* two lexical forms of one number and as another number.  Object 2 is     *)
(* there or not, before or after object 1.                                 *)

QValues == {FloatVal(10, 1), FloatVal(100, 2), FloatVal(20, 1)}

GameObject1(p, q) ==
    Object("GameObject", 1, [key \in {"P", "Q"} |-> IF key = "P" THEN IntVal(p) ELSE q])

MergeObjects ==
    {GameObject1(p, FloatVal(10, 1)) : p \in 1..MaxVal}
    \cup {GameObject1(1, q) : q \in QValues}
    \cup {Object("Transform", 2, [key \in {"P"} |-> IntVal(1)])}

DistinctFileIDs(doc) ==
    \A i, j \in 1..Len(doc) : i # j => doc[i].fid # doc[j].fid

\* the documents of up to MaxObjs of these objects, no fileID twice
DocumentsOver(objects) ==
    {doc \in UNION {[1..n -> objects] : n \in 0..MaxObjs} : DistinctFileIDs(doc)}

\* documents in which two objects share fileID 1, with the same content
\* and with different content: they parse (design 3, 4.1)
DuplicateDocuments ==
    {<<GameObject1(p[1], FloatVal(10, 1)), GameObject1(p[2], FloatVal(10, 1))>> :
        p \in {<<1, 1>>, <<1, 2>>, <<2, 1>>}}

MalformedText == <<Header("GameObject", 1), BadLine>>

MergeInputs ==
    {TextFile(Render(doc)) : doc \in DocumentsOver(MergeObjects) \cup DuplicateDocuments}
    \cup {TextFile(MalformedText), UnreadableFile}

-----------------------------------------------------------------------------
(* The merge command (cli.py, merge_files).                                *)

\* normalizer = UnityPrefabNormalizer()
MergeNormalizerOptions == DefaultOptions

\* output_path = output or ours; output "" stands for an absent -o
OutputPath(a) == IF a.output # "" THEN a.output ELSE a.ours

\* the call with base and ours exchanged
MergeCallResult_BaseOursSwapped(l) ==
    three_way_merge(l.ours_content, l.base_content, l.theirs_content)

\* the call with ours and theirs exchanged
MergeCallResult_OursTheirsSwapped(l) ==
    three_way_merge(l.base_content, l.theirs_content, l.ours_content)

\* the call with base and theirs exchanged
MergeCallResult_BaseTheirsSwapped(l) ==
    three_way_merge(l.theirs_content, l.ours_content, l.base_content)

\* three_way_merge(base_content, ours_content, theirs_content)
MergeCallResult(l) == three_way_merge(l.base_content, l.ours_content, l.theirs_content)

\* a merge command that reports success whatever the conflict flag
MergeExitStatus_AlwaysZero(has_conflict) == 0

\* sys.exit(1) on a conflict, sys.exit(0) otherwise
MergeExitStatus(has_conflict) == IF has_conflict THEN 1 ELSE 0

MergeLocals ==
    [base_content |-> <<>>, ours_content |-> <<>>, theirs_content |-> <<>>,
     result |-> <<>>, has_conflict |-> FALSE]

MergeInit ==
    /\ cmd = "merge"
    /\ \E o \in {"", "out"} :
          args = [base |-> "base", ours |-> "ours", theirs |-> "theirs", output |-> o]
    /\ \E b \in MergeInputs, o \in MergeInputs, t \in MergeInputs :
          fs = [p \in {"base", "ours", "theirs", "out"} |->
                   IF p = "base" THEN b ELSE IF p = "ours" THEN o
                   ELSE IF p = "theirs" THEN t ELSE NoFile]
    /\ fs0 = fs
    /\ pc = "start"
    /\ loc = MergeLocals
    /\ out = <<>>
    /\ err = <<>>
    /\ exit = Running
    /\ calls = <<>>
    /\ writes = <<>>

\* the try block: the three inputs are normalized in turn; the first
\* exception ends the command with status 1
MergeNormalize ==
    /\ cmd = "merge" /\ pc = "start"
    /\ LET b == normalize_file(fs[args.base], MergeNormalizerOptions)
           o == normalize_file(fs[args.ours], MergeNormalizerOptions)
           t == normalize_file(fs[args.theirs], MergeNormalizerOptions)
       IN  IF b.ok /\ o.ok /\ t.ok
           THEN /\ loc' = [loc EXCEPT !.base_content = b.text, !.ours_content = o.text,
                                      !.theirs_content = t.text]
                /\ pc' = "merge"
                /\ UNCHANGED <<err, exit>>
           ELSE /\ err' = Append(err, "Error: Failed to normalize files")
                /\ exit' = 1
                /\ pc' = "done"
                /\ UNCHANGED loc
    /\ UNCHANGED <<cmd, args, fs, out, calls, writes, fs0>>

\* result, has_conflict = three_way_merge(...); an exception of the call is
\* not caught and ends the process with a traceback
MergeCall ==
    /\ cmd = "merge" /\ pc = "merge"
    /\ calls' = Append(calls, <<loc.base_content, loc.ours_content, loc.theirs_content>>)
    /\ LET r == MergeCallResult(loc) IN
           IF r.ok
           THEN /\ loc' = [loc EXCEPT !.result = r.text, !.has_conflict = r.has_conflict]
                /\ pc' = "write"
                /\ UNCHANGED <<err, exit>>
           ELSE /\ err' = Append(err, "Traceback")
                /\ exit' = 1
                /\ pc' = "done"
                /\ UNCHANGED loc
    /\ UNCHANGED <<cmd, args, fs, out, writes, fs0>>

\* output_path.write_text(result)
MergeWrite ==
    /\ cmd = "merge" /\ pc = "write"
    /\ fs' = [fs EXCEPT ![OutputPath(args)] = TextFile(loc.result)]
    /\ writes' = Append(writes, OutputPath(args))
    /\ pc' = "exit"
    /\ UNCHANGED <<cmd, args, loc, out, err, exit, calls, fs0>>

\* the final if: a message and status 1 on a conflict, silent status 0 otherwise
MergeExit ==
    /\ cmd = "merge" /\ pc = "exit"
    /\ err' = IF loc.has_conflict THEN Append(err, "Conflict") ELSE err
    /\ exit' = MergeExitStatus(loc.has_conflict)
    /\ pc' = "done"
    /\ UNCHANGED <<cmd, args, fs, loc, out, calls, writes, fs0>>

MergeNext == MergeNormalize \/ MergeCall \/ MergeWrite \/ MergeExit

MergeSpec == MergeInit /\ [][MergeNext]_vars

-----------------------------------------------------------------------------
(* Properties of the merge command and of the merge it calls.              *)

\* the command has ended after making the three_way_merge call; loc holds
\* what the call returned
MergeCalled == cmd = "merge" /\ calls # <<>> /\ pc = "done"

\* the call returned a result instead of raising
MergeReturned == MergeCalled /\ writes # <<>>

\* the documents the call was given, and the document it returned
CallBase == Parse(calls[1][1]).doc
CallOurs == Parse(calls[1][2]).doc
CallTheirs == Parse(calls[1][3]).doc
Merged == Parse(loc.result).doc
CallFileIDs == FileIDs(CallBase) \cup FileIDs(CallOurs) \cup FileIDs(CallTheirs)

InAllThree(f) ==
    f \in FileIDs(CallBase) /\ f \in FileIDs(CallOurs) /\ f \in FileIDs(CallTheirs)

LeafKeys(f) ==
    DOMAIN Lookup(CallBase, f).content \cup DOMAIN Lookup(CallOurs, f).content
        \cup DOMAIN Lookup(CallTheirs, f).content

BaseLeaf(f, key) == Value(Lookup(CallBase, f).content, key)
OursLeaf(f, key) == Value(Lookup(CallOurs, f).content, key)
TheirsLeaf(f, key) == Value(Lookup(CallTheirs, f).content, key)
MergedLeaf(f, key) == Value(Lookup(Merged, f).content, key)

\* both sides changed the leaf, and differently
BothChanged(f, key) ==
    /\ OursLeaf(f, key) # TheirsLeaf(f, key)
    /\ OursLeaf(f, key) # BaseLeaf(f, key)
    /\ TheirsLeaf(f, key) # BaseLeaf(f, key)

\* the text holds, under the header of fileID f, a marker at this property
\* path with these two candidate values
HasMarker(text, f, key, o, t) ==
    \E i \in 1..Len(text) :
        /\ text[i] = Prop(key, Conflict(o, t))
        /\ \E h \in 1..(i - 1) :
              /\ text[h].t = "hdr" /\ text[h].fid = f
              /\ \A j \in (h + 1)..i : text[j].t # "hdr"

AllNormalize ==
    /\ normalize_file(fs0["base"], DefaultOptions).ok
    /\ normalize_file(fs0["ours"], DefaultOptions).ok
    /\ normalize_file(fs0["theirs"], DefaultOptions).ok

C2_OneSidedChangeTaken ==
    MergeReturned =>
        /\ \A f \in CallFileIDs :
              LET b == Lookup(CallBase, f)
                  o == Lookup(CallOurs, f)
                  t == Lookup(CallTheirs, f)
              IN  /\ (o # b /\ t = b) => Lookup(Merged, f) = o
                  /\ (t # b /\ o = b) => Lookup(Merged, f) = t
                  /\ InAllThree(f) =>
                        \A key \in LeafKeys(f) :
                            /\ (OursLeaf(f, key) # BaseLeaf(f, key)
                                    /\ TheirsLeaf(f, key) = BaseLeaf(f, key))
                                  => MergedLeaf(f, key) = OursLeaf(f, key)
                            /\ (TheirsLeaf(f, key) # BaseLeaf(f, key)
                                    /\ OursLeaf(f, key) = BaseLeaf(f, key))
                                  => MergedLeaf(f, key) = TheirsLeaf(f, key)
        /\ loc.has_conflict => \E f \in CallFileIDs : \E key \in LeafKeys(f) : BothChanged(f, key)

\* base P=1, ours P=2, theirs P=1 in object 1: merged P=2, no conflict
C2_Witness ==
    /\ MergeReturned
    /\ InAllThree(1)
    /\ BaseLeaf(1, "P") = IntVal(1) /\ OursLeaf(1, "P") = IntVal(2)
    /\ TheirsLeaf(1, "P") = IntVal(1)
    /\ MergedLeaf(1, "P") = IntVal(2)
    /\ ~loc.has_conflict

\* C3: when a leaf of an object present in base, ours and theirs was changed
\* on both sides to different values, the call returns, has_conflict is set
\* and the merged text holds a marker with the object's fileID, the property
\* path, the ours value and the theirs value.
C3_ConflictMarked ==
    MergeCalled =>
        \A f \in CallFileIDs :
            InAllThree(f) =>
                \A key \in LeafKeys(f) :
                    BothChanged(f, key) =>
                        /\ MergeReturned
                        /\ loc.has_conflict
                        /\ HasMarker(loc.result, f, key, OursLeaf(f, key), TheirsLeaf(f, key))

\* base P=1, ours P=2, theirs P=3 in object 1
C3_Witness ==
    /\ MergeReturned
    /\ InAllThree(1)
    /\ BaseLeaf(1, "P") = IntVal(1) /\ OursLeaf(1, "P") = IntVal(2)
    /\ TheirsLeaf(1, "P") = IntVal(3)
    /\ loc.has_conflict
    /\ HasMarker(loc.result, 1, "P", IntVal(2), IntVal(3))

\* every object but f is the same in base, ours and theirs
OnlyChange(f) ==
    \A g \in CallFileIDs \ {f} :
        Lookup(CallOurs, g) = Lookup(CallBase, g) /\ Lookup(CallTheirs, g) = Lookup(CallBase, g)

\* C4: an object of base that one side removed and the other left as in
\* base is not in the merged result and raises no conflict; an object of
\* base that one side removed and the other modified sets has_conflict.
C4_RemovedObjects ==
    MergeReturned =>
        \A f \in FileIDs(CallBase) :
            LET b == Lookup(CallBase, f)
                o == Lookup(CallOurs, f)
                t == Lookup(CallTheirs, f)
                removedUnchanged == (~Present(o) /\ t = b) \/ (~Present(t) /\ o = b)
                removedModified == \/ ~Present(o) /\ Present(t) /\ t # b
                                   \/ ~Present(t) /\ Present(o) /\ o # b
            IN  /\ removedUnchanged =>
                      /\ f \notin FileIDs(Merged)
                      /\ OnlyChange(f) => ~loc.has_conflict
                /\ removedModified => loc.has_conflict

\* object 1 removed by theirs and modified by ours, object 2 removed by ours
\* and untouched by theirs
C4_Witness ==
    /\ MergeReturned
    /\ Present(Lookup(CallBase, 1)) /\ ~Present(Lookup(CallTheirs, 1))
    /\ Present(Lookup(CallOurs, 1)) /\ Lookup(CallOurs, 1) # Lookup(CallBase, 1)
    /\ Present(Lookup(CallBase, 2)) /\ ~Present(Lookup(CallOurs, 2))
    /\ Lookup(CallTheirs, 2) = Lookup(CallBase, 2)
    /\ 2 \notin FileIDs(Merged)
    /\ loc.has_conflict

-----------------------------------------------------------------------------
(* validate(Document) (design 4.3): duplicate fileIDs and missing required *)
(* fields are errors, dangling local references are warnings.              *)

Issue(sev, msg, f) == [severity |-> sev, message |-> msg, file_id |-> f]

\* class -> the fields an object of the class must carry
RequiredFields(cls) ==
    IF cls = "GameObject" THEN {"m_Name"}
    ELSE IF cls = "Transform" THEN {"m_GameObject"}
    ELSE {}

\* the members of a set of integers in ascending order
RECURSIVE Ascending(_)
Ascending(S) ==
    IF S = {} THEN <<>>
    ELSE LET x == CHOOSE y \in S : \A z \in S : y <= z
         IN  <<x>> \o Ascending(S \ {x})

\* one error per fileID that more than one object carries
DuplicateIssues(doc) ==
    LET dup == {f \in FileIDs(doc) : Cardinality({i \in 1..Len(doc) : doc[i].fid = f}) > 1}
        ids == Ascending(dup)
    IN  [i \in 1..Len(ids) |-> Issue("error", "Duplicate fileID", ids[i])]

RECURSIVE RequiredIssues(_, _)
RequiredIssues(doc, i) ==
    IF i > Len(doc) THEN <<>>
    ELSE (IF RequiredFields(doc[i].cls) \subseteq DOMAIN doc[i].content THEN <<>>
          ELSE <<Issue("error", "Missing required field", doc[i].fid)>>)
         \o RequiredIssues(doc, i + 1)

\* a reference with a nonzero fileID and no guid that the document does not resolve
Dangling(doc, v) == v.k = "ref" /\ v.m # 0 /\ v.d = 0 /\ v.m \notin FileIDs(doc)

RECURSIVE DanglingIssues(_, _)
DanglingIssues(doc, i) ==
    IF i > Len(doc) THEN <<>>
    ELSE LET bad == {key \in DOMAIN doc[i].content : Dangling(doc, doc[i].content[key])}
             ids == Ascending({doc[i].content[key].m : key \in bad})
         IN  [j \in 1..Len(ids) |-> Issue("warning", "Broken reference", ids[j])]
             \o DanglingIssues(doc, i + 1)

ValidateDocument(doc) ==
    DuplicateIssues(doc) \o RequiredIssues(doc, 1) \o DanglingIssues(doc, 1)

WithSeverity(issues, sev) == SelectSeq(issues, LAMBDA x : x.severity = sev)

\* is_valid: no error, and in strict mode no warning either
IsValid(issues, strict) ==
    /\ WithSeverity(issues, "error") = <<>>
    /\ strict => WithSeverity(issues, "warning") = <<>>

ValidationResult(issues, strict) ==
    [issues |-> issues, errors |-> WithSeverity(issues, "error"),
     is_valid |-> IsValid(issues, strict)]

\* validator.validate_file(path): a file that cannot be read or parsed
\* yields a result with one error
validate_file(file, strict) ==
    IF file.kind # "text" \/ ~Parse(file.lines).ok
    THEN ValidationResult(<<Issue("error", "Failed to parse file", 0)>>, strict)
    ELSE ValidationResult(ValidateDocument(Parse(file.lines).doc), strict)

-----------------------------------------------------------------------------
(* The validate command (cli.py, validate).                                *)

NamedGameObject == Object("GameObject", 1, [key \in {"m_Name"} |-> StrVal(1)])
UnnamedGameObject == Object("GameObject", 1, NoContent)
TransformOf(f) == Object("Transform", 2, [key \in {"m_GameObject"} |-> RefVal(f, 0)])

\* the objects of the documents given to validate: a GameObject with and
\* without its name, a Transform whose owner reference resolves to object 1
\* or points at a fileID no document has
ValidateObjects == <<NamedGameObject, UnnamedGameObject, TransformOf(1), TransformOf(9)>>

\* the empty document, one object, or two different objects in either order
ValidateDocuments ==
    {<<>>}
    \cup {<<ValidateObjects[i]>> : i \in 1..Len(ValidateObjects)}
    \cup {<<ValidateObjects[ij[1]], ValidateObjects[ij[2]]>> :
             ij \in {x \in (1..Len(ValidateObjects)) \X (1..Len(ValidateObjects)) :
                        x[1] # x[2]}}

ValidateInputs ==
    {TextFile(Render(doc)) : doc \in ValidateDocuments} \cup {TextFile(MalformedText)}

FilePaths == <<"f1", "f2", "f3", "f4">>

\* a validator that ignores --strict
ValidatorStrict_Ignored(strict) == FALSE

\* validator = PrefabValidator(strict=strict)
ValidatorStrict(strict) == strict

\* a flag that remembers the last file only
AnyInvalidAfter_LastOnly(any_invalid, result) == ~result.is_valid

\* if not result.is_valid: any_invalid = True
AnyInvalidAfter(any_invalid, result) == any_invalid \/ ~result.is_valid

\* what one file adds to stdout
ValidateOutput(file, result, a) ==
    IF a.output_format = "json"
    THEN <<[kind |-> "json", path |-> file, valid |-> result.is_valid,
            issues |-> result.issues]>>
    ELSE IF a.quiet
    THEN IF result.errors # <<>>
         THEN <<[kind |-> "INVALID", path |-> file, valid |-> FALSE,
                 issues |-> result.errors]>>
         ELSE <<>>
    ELSE <<[kind |-> "result", path |-> file, valid |-> result.is_valid,
            issues |-> result.issues]>>

ValidateInit ==
    /\ cmd = "validate"
    /\ \E n \in 1..MaxFiles, st \in BOOLEAN, q \in BOOLEAN, fmt \in {"text", "json"} :
          /\ args = [files |-> SubSeq(FilePaths, 1, n), strict |-> st,
                     output_format |-> fmt, quiet |-> q]
          /\ \E content \in [1..n -> ValidateInputs] :
                fs = [p \in {FilePaths[i] : i \in 1..n} |->
                         content[CHOOSE i \in 1..n : FilePaths[i] = p]]
    /\ fs0 = fs
    /\ pc = "loop"
    /\ loc = [i |-> 1, any_invalid |-> FALSE, validated |-> <<>>]
    /\ out = <<>>
    /\ err = <<>>
    /\ exit = Running
    /\ calls = <<>>
    /\ writes = <<>>

\* one turn of "for file in files"
ValidateFile ==
    /\ cmd = "validate" /\ pc = "loop"
    /\ loc.i <= Len(args.files)
    /\ LET file == args.files[loc.i]
           result == validate_file(fs[file], ValidatorStrict(args.strict))
       IN  /\ loc' = [i |-> loc.i + 1,
                      any_invalid |-> AnyInvalidAfter(loc.any_invalid, result),
                      validated |-> Append(loc.validated, [path |-> file, result |-> result])]
           /\ out' = out \o ValidateOutput(file, result, args)
    /\ UNCHANGED <<cmd, args, fs, pc, err, exit, calls, writes, fs0>>

\* after the loop: sys.exit(1) if any_invalid, a normal return otherwise
ValidateExit ==
    /\ cmd = "validate" /\ pc = "loop"
    /\ loc.i > Len(args.files)
    /\ exit' = IF loc.any_invalid THEN 1 ELSE 0
    /\ pc' = "done"
    /\ UNCHANGED <<cmd, args, fs, loc, out, err, calls, writes, fs0>>

ValidateNext == ValidateFile \/ ValidateExit

ValidateSpec == ValidateInit /\ [][ValidateNext]_vars

\* the result the validator owes for the i-th file of the command line
ExpectedResult(i) == validate_file(fs0[args.files[i]], args.strict)

\* C7: the validate command validates every file of the command line, in
\* order, whatever the earlier results, does not exit before the last one,
\* and then exits with 1 exactly when some file's result has is_valid false.
C7_ValidateAllFiles ==
    cmd = "validate" =>
        /\ \A i \in 1..Len(loc.validated) :
              /\ i <= Len(args.files)
              /\ loc.validated[i].path = args.files[i]
              /\ loc.validated[i].result = ExpectedResult(i)
        /\ exit # Running <=> pc = "done"
        /\ pc = "done" =>
              /\ Len(loc.validated) = Len(args.files)
              /\ exit = 1 <=> \E i \in 1..Len(args.files) : ~ExpectedResult(i).is_valid
              /\ exit = 0 <=> \A i \in 1..Len(args.files) : ExpectedResult(i).is_valid

\* an invalid first file, a valid second file: both validated, status 1
C7_Witness ==
    /\ cmd = "validate" /\ pc = "done" /\ exit = 1
    /\ Len(args.files) = 2 /\ Len(loc.validated) = 2
    /\ ~loc.validated[1].result.is_valid
    /\ loc.validated[2].result.is_valid

InfoIssue == Issue("info", "note", 0)

\* C8: the result of every validated file has is_valid true exactly when it
\* holds no error and, under --strict, no warning; an info issue added to
\* its issues leaves is_valid as it is.
C8_IsValid ==
    cmd = "validate" =>
        \A i \in 1..Len(loc.validated) :
            LET r == loc.validated[i].result
                noError == \A j \in 1..Len(r.issues) : r.issues[j].severity # "error"
                noWarning == \A j \in 1..Len(r.issues) : r.issues[j].severity # "warning"
            IN  /\ r.issues = ExpectedResult(i).issues
                /\ r.is_valid <=> (noError /\ (args.strict => noWarning))
                /\ IsValid(Append(r.issues, InfoIssue), args.strict) <=> r.is_valid
                /\ IsValid(<<InfoIssue>> \o r.issues, args.strict) <=> r.is_valid

\* under --strict a file with a warning and no error is invalid
C8_Witness ==
    /\ cmd = "validate" /\ args.strict /\ Len(loc.validated) >= 1
    /\ LET r == loc.validated[1].result
       IN  /\ ~r.is_valid
           /\ r.errors = <<>>
           /\ \E j \in 1..Len(r.issues) : r.issues[j].severity = "warning"

\* stdout names the file as INVALID and lists issues under it
ReportedInvalid(path) ==
    \E j \in 1..Len(out) :
        out[j].kind = "INVALID" /\ out[j].path = path /\ out[j].issues # <<>>

\* C15: in the text output with --quiet every validated file whose result
\* has is_valid false is on stdout as INVALID with its issues, so the
\* command does not exit with status 1 without having named an invalid
\* file, also when --strict makes a file invalid through warnings only.
C15_QuietReportsEveryInvalidFile ==
    (cmd = "validate" /\ args.output_format = "text" /\ args.quiet) =>
        /\ \A i \in 1..Len(loc.validated) :
              ~loc.validated[i].result.is_valid =>
                  ReportedInvalid(loc.validated[i].path)
        /\ exit = 1 => \E i \in 1..Len(args.files) : ReportedInvalid(args.files[i])

-----------------------------------------------------------------------------
(* Input documents of the normalize command: floats in several lexical     *)
(* forms, rotations (unit and not, of either sign, and one that is no      *)
(* quaternion), a four-number colour outside the allow-list, and an        *)
(* unsorted modification list with two entries of one key.                 *)

Rotations ==
    {Map4(FloatVal(0, 1), FloatVal(0, 1), FloatVal(0, 1), FloatVal(10, 1)),  \* identity
     Map4(FloatVal(0, 1), FloatVal(0, 1), FloatVal(0, 1), FloatVal(-100, 2)),  \* its negation, as -1.00
     Map4(FloatVal(6, 1), FloatVal(8, 1), FloatVal(0, 1), FloatVal(0, 1)),   \* w = 0
     Map4(FloatVal(-6, 1), FloatVal(-8, 1), FloatVal(0, 1), FloatVal(0, 1)), \* its negation
     Map4(FloatVal(6, 1), FloatVal(0, 1), FloatVal(0, 1), FloatVal(-8, 1)),  \* w < 0
     Map4(FloatVal(0, 1), FloatVal(0, 1), FloatVal(0, 1), FloatVal(20, 1)),  \* magnitude 2
     Map4(FloatVal(94, 2), FloatVal(25, 2), FloatVal(25, 2), FloatVal(0, 1)),  \* magnitude 1.004
     Map4(FloatVal(12, 1), FloatVal(12, 1), FloatVal(5, 1), FloatVal(5, 1)), \* magnitude 1.84
     Map4(FloatVal(-12, 1), FloatVal(-12, 1), FloatVal(-12, 1), FloatVal(1, 1)),  \* w is 0 once rescaled
     Map4(FloatVal(0, 1), FloatVal(0, 1), FloatVal(0, 1), StrVal(1))}        \* w is no number

NormalizeObjects ==
    {Object("GameObject", 1, [key \in {"Q"} |-> q]) :
        q \in {FloatVal(10, 1), FloatVal(100, 2), FloatVal(125, 2), FloatVal(10000004, 7)}}
    \cup {Object("Transform", 2, [key \in {"m_LocalRotation"} |-> r]) : r \in Rotations}
    \cup {Object("Transform", 2,
                 [key \in {"m_Color"} |->
                     Map4(FloatVal(-6, 1), FloatVal(-8, 1), FloatVal(0, 1), FloatVal(-100, 2))])}
    \cup {Object("PrefabInstance", 3,
                 [key \in {"m_Modifications"} |->
                     Mods(<<<<2, 2, IntVal(1)>>, <<2, 1, IntVal(2)>>, <<1, 1, IntVal(3)>>,
                            <<2, 1, IntVal(4)>>>>)])}

\* one object, or a PrefabInstance (fileID 3) in front of a GameObject
NormalizeDocuments ==
    {<<o>> : o \in NormalizeObjects}
    \cup {<<a, b>> : a \in {x \in NormalizeObjects : x.fid = 3},
                     b \in {x \in NormalizeObjects : x.fid = 1}}

NormalizeInputs ==
    {TextFile(Render(doc)) : doc \in NormalizeDocuments}
    \cup {TextFile(MalformedText), UnreadableFile}

\* The model computes a rescaled quaternion in integers, which hold it at
\* up to two decimal digits: a text with a rotation to rescale is given
\* only to a normalizer of precision 1 or 2 that does not render floats
\* in the lossless form.
Computable(file, o) ==
    (file.kind = "text" /\ Parse(file.lines).ok /\ o.normalize_quaternions) =>
        \A i \in 1..Len(Parse(file.lines).doc) :
            LET c == Parse(file.lines).doc[i].content IN
            \A key \in DOMAIN c \cap QuaternionProperties :
                (/\ IsQuaternion(c[key])
                 /\ NeedsRescale(NormalizeScalars(c[key], o).c, o.float_precision)) =>
                    /\ o.float_precision <= 2
                    /\ ~(o.normalize_floats /\ o.use_hex_floats)

-----------------------------------------------------------------------------
(* The normalize command (cli.py, normalize).                              *)

\* a normalizer built with --no-sort-documents passed for sort_modifications
NormalizeOptions_SortFlagReused(a) ==
    Options(~a.no_sort_documents, ~a.no_sort_documents, ~a.no_normalize_floats,
            a.hex_floats, ~a.no_normalize_quaternions, a.precision)

\* the normalizer the command builds from its flags
NormalizeOptions(a) ==
    Options(~a.no_sort_documents, ~a.no_sort_modifications, ~a.no_normalize_floats,
            a.hex_floats, ~a.no_normalize_quaternions, a.precision)

\* a command that looks at -o before --stdout
NormalizeDestination_OutputFirst(a) ==
    IF a.output # "" THEN a.output ELSE IF a.stdout THEN "stdout" ELSE a.input_file

\* if stdout: ... elif output: ... else: the input file
NormalizeDestination(a) ==
    IF a.stdout THEN "stdout" ELSE IF a.output # "" THEN a.output ELSE a.input_file

NormalizeInit ==
    /\ cmd = "normalize"
    /\ \E o \in {"", "out"}, so \in BOOLEAN, fmt \in {"yaml", "json"},
          nsd \in BOOLEAN, nsm \in BOOLEAN, nnf \in BOOLEAN, hx \in BOOLEAN,
          nnq \in BOOLEAN, pr \in {1, 2, DefaultPrecision} :
          args = [input_file |-> "in", output |-> o, stdout |-> so,
                  no_sort_documents |-> nsd, no_sort_modifications |-> nsm,
                  no_normalize_floats |-> nnf, hex_floats |-> hx,
                  no_normalize_quaternions |-> nnq, precision |-> pr,
                  output_format |-> fmt]
    /\ \E f \in NormalizeInputs :
          fs = [p \in {"in", "out"} |-> IF p = "in" THEN f ELSE NoFile]
    /\ Computable(fs["in"], NormalizeOptions(args))
    /\ fs0 = fs
    /\ pc = "start"
    /\ loc = [content |-> <<>>, runs |-> 1, start |-> fs]
    /\ out = <<>>
    /\ err = <<>>
    /\ exit = Running
    /\ calls = <<>>
    /\ writes = <<>>

\* the try block: content = normalizer.normalize_file(input_file)
NormalizeRead ==
    /\ cmd = "normalize" /\ pc = "start"
    /\ LET r == normalize_file(fs[args.input_file], NormalizeOptions(args)) IN
           IF r.ok
           THEN /\ loc' = [loc EXCEPT !.content = r.text]
                /\ pc' = "emit"
                /\ UNCHANGED <<err, exit>>
           ELSE /\ err' = Append(err, "Error: Failed to normalize")
                /\ exit' = 1
                /\ pc' = "done"
                /\ UNCHANGED loc
    /\ UNCHANGED <<cmd, args, fs, out, calls, writes, fs0>>

\* --format json is refused; otherwise the content goes to its destination
NormalizeEmit ==
    /\ cmd = "normalize" /\ pc = "emit"
    /\ pc' = "done"
    /\ IF args.output_format = "json"
       THEN /\ err' = Append(err, "Error: JSON format not yet implemented")
            /\ exit' = 1
            /\ UNCHANGED <<fs, out, writes>>
       ELSE /\ exit' = 0
            /\ UNCHANGED err
            /\ IF NormalizeDestination(args) = "stdout"
               THEN /\ out' = Append(out, [kind |-> "content", text |-> loc.content])
                    /\ UNCHANGED <<fs, writes>>
               ELSE /\ fs' = [fs EXCEPT ![NormalizeDestination(args)] = TextFile(loc.content)]
                    /\ writes' = Append(writes, NormalizeDestination(args))
                    /\ out' = Append(out, [kind |-> "message", text |-> <<>>])
    /\ UNCHANGED <<cmd, args, loc, calls, fs0>>

\* the same command line run once more on the files the last run left
NormalizeAgain ==
    /\ cmd = "normalize" /\ pc = "done" /\ exit = 0
    /\ loc.runs < MaxRuns
    /\ pc' = "start"
    /\ loc' = [content |-> <<>>, runs |-> loc.runs + 1, start |-> fs]
    /\ out' = <<>>
    /\ err' = <<>>
    /\ writes' = <<>>
    /\ exit' = Running
    /\ UNCHANGED <<cmd, args, fs, calls, fs0>>

NormalizeNext == NormalizeRead \/ NormalizeEmit \/ NormalizeAgain

NormalizeSpec == NormalizeInit /\ [][NormalizeNext]_vars

\* the texts of normalized content on stdout
ContentOnStdout == SelectSeq(out, LAMBDA x : x.kind = "content")

RescaledInPlace(r) ==
    /\ cmd = "normalize" /\ pc = "done" /\ exit = 0 /\ loc.runs > 1
    /\ NormalizeDestination(args) = "in"
    /\ NormalizeOptions(args).normalize_quaternions
    /\ fs0["in"] = TextFile(Render(<<Object("Transform", 2, [key \in {"m_LocalRotation"} |-> r])>>))
    /\ fs["in"] # fs0["in"]

NormalizeFlags ==
    {"no_sort_documents", "no_sort_modifications", "no_normalize_floats", "hex_floats",
     "no_normalize_quaternions"}

OptionOfFlag(flag) ==
    IF flag = "no_sort_documents" THEN "sort_documents"
    ELSE IF flag = "no_sort_modifications" THEN "sort_modifications"
    ELSE IF flag = "no_normalize_floats" THEN "normalize_floats"
    ELSE IF flag = "hex_floats" THEN "use_hex_floats"
    ELSE "normalize_quaternions"

\* the command line carries none of the boolean flags and no --precision
NoNormalizeFlags(a) ==
    /\ \A flag \in NormalizeFlags : ~a[flag]
    /\ a.precision = DefaultPrecision

\* C11: the normalizer of a normalize run has each option set by its own
\* flag: without flags the four rules are on, use_hex_floats is off and
\* float_precision is 6; giving or dropping one flag changes its option and
\* no other; another --precision changes float_precision and no other; and
\* the content the run produced is the normalization under those options.
C11_FlagsMapToOptions ==
    cmd = "normalize" =>
        LET o == NormalizeOptions(args)
            expected == [sort_documents |-> ~args.no_sort_documents,
                         sort_modifications |-> ~args.no_sort_modifications,
                         normalize_floats |-> ~args.no_normalize_floats,
                         use_hex_floats |-> args.hex_floats,
                         normalize_quaternions |-> ~args.no_normalize_quaternions,
                         float_precision |-> args.precision]
        IN  /\ o = expected
            /\ NoNormalizeFlags(args) =>
                  o = [sort_documents |-> TRUE, sort_modifications |-> TRUE,
                       normalize_floats |-> TRUE, use_hex_floats |-> FALSE,
                       normalize_quaternions |-> TRUE, float_precision |-> 6]
            /\ \A flag \in NormalizeFlags :
                  \A opt \in DOMAIN o :
                      (NormalizeOptions([args EXCEPT ![flag] = ~@])[opt] # o[opt])
                          <=> (opt = OptionOfFlag(flag))
            /\ \A p \in {1, 2, 6} :
                  NormalizeOptions([args EXCEPT !.precision = p])
                      = [o EXCEPT !.float_precision = p]
            /\ pc = "emit" =>
                  loc.content = Render(Normalize(Parse(fs["in"].lines).doc, expected))

\* --no-sort-documents alone, on a text whose objects are out of order: the
\* content keeps the order the default normalizer would change
C11_Witness ==
    /\ cmd = "normalize" /\ pc = "done" /\ exit = 0
    /\ args.no_sort_documents
    /\ \A flag \in NormalizeFlags \ {"no_sort_documents"} : ~args[flag]
    /\ args.precision = DefaultPrecision
    /\ loc.content # normalize_file(loc.start["in"], DefaultOptions).text
    /\ loc.content = normalize_file(loc.start["in"], NormalizeOptions(args)).text

-----------------------------------------------------------------------------
(* The git-textconv command (cli.py, git_textconv).                        *)

\* the rotations of unit magnitude, which any precision can hold
TextconvObjects ==
    MergeObjects \cup {obj \in NormalizeObjects : Computable(TextFile(Render(<<obj>>)),
                                                            DefaultOptions)}

TextconvInputs ==
    {TextFile(Render(doc)) : doc \in DocumentsOver(TextconvObjects) \cup DuplicateDocuments}
    \cup {TextFile(MalformedText), UnreadableFile}

\* normalizer = UnityPrefabNormalizer()
TextconvOptions == DefaultOptions

\* file.read_text(encoding="utf-8"): the text, or an exception
read_text(file) ==
    IF file.kind = "text" THEN [ok |-> TRUE, text |-> file.lines]
    ELSE [ok |-> FALSE, text |-> <<>>]

TextconvInit ==
    /\ cmd = "git-textconv"
    /\ args = [file |-> "in"]
    /\ \E f \in TextconvInputs : fs = [p \in {"in"} |-> f]
    /\ fs0 = fs
    /\ pc = "start"
    /\ loc = [content |-> <<>>]
    /\ out = <<>>
    /\ err = <<>>
    /\ exit = Running
    /\ calls = <<>>
    /\ writes = <<>>

\* the try block: the normalized content goes to stdout
TextconvNormalize ==
    /\ cmd = "git-textconv" /\ pc = "start"
    /\ LET r == normalize_file(fs[args.file], TextconvOptions) IN
           IF r.ok
           THEN /\ out' = Append(out, [kind |-> "content", text |-> r.text])
                /\ exit' = 0
                /\ pc' = "done"
                /\ UNCHANGED err
           ELSE /\ err' = Append(err, "# Error normalizing")
                /\ pc' = "except"
                /\ UNCHANGED <<out, exit>>
    /\ UNCHANGED <<cmd, args, fs, loc, calls, writes, fs0>>

\* the except block: the original content goes to stdout; an exception of
\* read_text is not caught and ends the process with a traceback
TextconvFallback ==
    /\ cmd = "git-textconv" /\ pc = "except"
    /\ LET r == read_text(fs[args.file]) IN
           IF r.ok
           THEN /\ out' = Append(out, [kind |-> "content", text |-> r.text])
                /\ exit' = 0
                /\ UNCHANGED err
           ELSE /\ err' = Append(err, "Traceback")
                /\ exit' = 1
                /\ UNCHANGED out
    /\ pc' = "done"
    /\ UNCHANGED <<cmd, args, fs, loc, calls, writes, fs0>>

TextconvNext == TextconvNormalize \/ TextconvFallback

TextconvSpec == TextconvInit /\ [][TextconvNext]_vars

\* C10: a finished git-textconv run has put one text on stdout, the
\* normalized content when the file normalizes and the file's own content
\* when it does not, and its exit status is 0.
C10_TextconvAlwaysEmits ==
    (cmd = "git-textconv" /\ pc = "done") =>
        LET r == normalize_file(fs0["in"], DefaultOptions) IN
        /\ exit = 0
        /\ Len(out) = 1
        /\ out[1].text = (IF r.ok THEN r.text ELSE fs0["in"].lines)

-----------------------------------------------------------------------------
(* The editor bridge (unityflow/mcp): JSON values.  A value is absent (the *)
(* key is not in its object), null, a string, a number (by its text), an   *)
(* array, or an object; the objects are the request, its params and a      *)
(* tool's arguments, each with the keys the code looks up.                 *)

Absent == [t |-> "absent", v |-> ""]
Null == [t |-> "null", v |-> ""]
JsonStr(s) == [t |-> "str", v |-> s]
JsonNum(s) == [t |-> "num", v |-> s]
JsonList == [t |-> "list", v |-> ""]
EmptyDict == [t |-> "obj", v |-> ""]

Arguments(count, level, path) ==
    [t |-> "obj", count |-> count, level |-> level, path |-> path]
Params(name, arguments) == [t |-> "obj", name |-> name, arguments |-> arguments]
RequestObject(method, params, id) ==
    [t |-> "obj", method |-> method, params |-> params, id |-> id]

\* d.get(key, default) of a dict d
Get(d, key, default) ==
    IF key \notin DOMAIN d THEN default
    ELSE IF d[key].t = "absent" THEN default
    ELSE d[key]

\* a string with a lone surrogate ("\ud800" in the JSON text): json.loads
\* accepts it, UTF-8 cannot encode it
Unencodable == JsonStr("lone surrogate")

\* Python's truth of a value: None, "", a number that is zero (the int 0
\* and the floats 0.0 and -0.0, a number being held as Python writes it)
\* and {} are false (JsonList stands for an array that is not empty)
Truthy(j) == j.t \notin {"absent", "null"} /\ ~(j.t = "str" /\ j.v = "")
                 /\ ~(j.t = "num" /\ j.v \in {"0", "0.0", "-0.0"}) /\ j # EmptyDict

-----------------------------------------------------------------------------
(* UnityClient (client.py): every method is one _request, which is one     *)
(* HTTP request to the editor.                                             *)

NoParams == [count |-> Absent, level |-> Absent, path |-> Absent]

HttpRequest(method, path, params) == [method |-> method, path |-> path, params |-> params]

\* get_logs(count, level): level goes into the query only when it is truthy
LogsParams(count, level) ==
    [count |-> count, level |-> IF Truthy(level) THEN level ELSE Absent, path |-> Absent]

\* _request builds the URL before it opens it: urlencode of the query of a
\* GET raises UnicodeEncodeError for a string UTF-8 cannot encode
UrlEncodes(request) ==
    request.method = "GET" =>
        \A key \in DOMAIN request.params : request.params[key] # Unencodable

\* what the editor does with one request: a JSON reply, a refused
\* connection, another URLError (an HTTP error status among them), a reply
\* that is no JSON, a connection closed without a response (urlopen raises
\* RemoteDisconnected, which is no URLError but is a ConnectionError), or
\* another exception that is no URLError (a timeout while reading, a body
\* that is no UTF-8). A reply nested deeper than the interpreter lets
\* json.dumps(result, indent=2) recurse is parsed by some interpreters and
\* then not rendered (RecursionError, seen on Python 3.12): dumps holds the
\* exception json.dumps raises on the reply, "" when it renders it.
\* urlopen follows the redirects the editor answers with (301, 302, 303,
\* and 307 for a GET) before the outcome is reached: follow holds their
\* Location headers in order, "" for the URL just asked; after the same
\* URL has been followed four times urlopen raises an HTTPError, which is
\* a URLError
EditorOutcomes ==
    {[kind |-> "reply", reply |-> r, dumps |-> "", follow |-> <<>>] :
        r \in {"reply1", "reply2"}}
    \cup {[kind |-> "reply", reply |-> "deep reply", dumps |-> d, follow |-> <<>>] :
             d \in {"", "RecursionError"}}
    \cup {[kind |-> k, reply |-> "", dumps |-> "", follow |-> <<>>] :
             k \in {"refused", "urlerror", "badjson", "dropped", "raised"}}
    \cup {[kind |-> "reply", reply |-> "reply1", dumps |-> "", follow |-> <<"/moved">>],
          [kind |-> "urlerror", reply |-> "", dumps |-> "", follow |-> <<"", "", "", "">>]}

\* the HTTP requests one urlopen sends: the request itself and a GET
\* without body for every redirect it follows
Sent(request, outcome) ==
    <<request>> \o
    [i \in 1..Len(outcome.follow) |->
        IF outcome.follow[i] = ""
        THEN HttpRequest("GET", request.path, request.params)
        ELSE HttpRequest("GET", outcome.follow[i], NoParams)]

\* _request: the reply, or the exception it raises; an exception that is
\* no URLError and no JSONDecodeError leaves it as it is
client_request(outcome) ==
    IF outcome.kind = "reply" THEN [raises |-> "", value |-> outcome.reply]
    ELSE IF outcome.kind \in {"refused", "dropped"}
         THEN [raises |-> "ConnectionError", value |-> ""]
    ELSE IF outcome.kind \in {"urlerror", "badjson"}
         THEN [raises |-> "RuntimeError", value |-> ""]
    ELSE [raises |-> "Exception", value |-> ""]

-----------------------------------------------------------------------------
(* call_tool (server.py).                                                  *)

TOOLS ==
    <<"unity_status", "unity_refresh", "unity_logs", "unity_clear_logs",
      "unity_compile_status", "unity_play", "unity_stop", "unity_pause", "unity_ping",
      "unity_selection", "unity_project_path", "unity_current_scene">>

ToolNames == {TOOLS[i] : i \in 1..Len(TOOLS)}

\* the client method each branch of call_tool calls, as the request it sends
ToolRequest(name, arguments) ==
    IF name = "unity_status" THEN HttpRequest("GET", "/status", NoParams)
    ELSE IF name = "unity_refresh" THEN HttpRequest("POST", "/refresh", NoParams)
    ELSE IF name = "unity_logs"
         THEN HttpRequest("GET", "/logs",
                          LogsParams(Get(arguments, "count", JsonNum("50")),
                                     Get(arguments, "level", Null)))
    ELSE IF name = "unity_clear_logs" THEN HttpRequest("POST", "/logs/clear", NoParams)
    ELSE IF name = "unity_compile_status" THEN HttpRequest("GET", "/compile/status", NoParams)
    ELSE IF name = "unity_play" THEN HttpRequest("POST", "/play", NoParams)
    ELSE IF name = "unity_stop" THEN HttpRequest("POST", "/stop", NoParams)
    ELSE IF name = "unity_pause" THEN HttpRequest("POST", "/pause", NoParams)
    ELSE IF name = "unity_ping"
         THEN HttpRequest("GET", "/ping",
                          [NoParams EXCEPT !.path = Get(arguments, "path", JsonStr(""))])
    ELSE IF name = "unity_selection" THEN HttpRequest("GET", "/selection", NoParams)
    ELSE IF name = "unity_project_path" THEN HttpRequest("GET", "/project/path", NoParams)
    ELSE HttpRequest("GET", "/scene/current", NoParams)

\* a text: json.dumps of a reply, or one of the two failure messages
Text(form, about) == [form |-> form, about |-> about]

\* the values call_tool returns: {"content": [...]} with or without isError,
\* or {"error": ...}
ToolResult(kind, text, is_error) ==
    [kind |-> kind, text |-> text, keys |-> IF kind = "error" THEN {"error"}
                                           ELSE IF is_error THEN {"content", "isError"}
                                           ELSE {"content"}]

\* what a call of call_tool comes to: the value it returns (raises = "") or
\* the exception that leaves it, and the HTTP requests it has sent
Returned(value, http) == [raises |-> "", value |-> value, http |-> http]

\* a call_tool with the first except clause only
ToolFailure_OnlyConnectionError(exception, http) ==
    IF exception = "ConnectionError"
    THEN Returned(ToolResult("content", Text("connection failed", exception), TRUE), http)
    ELSE [raises |-> exception, value |-> ToolResult("", Text("", ""), FALSE), http |-> http]

\* the two except clauses
ToolFailure(exception, http) ==
    IF exception = "ConnectionError"
    THEN Returned(ToolResult("content", Text("connection failed", exception), TRUE), http)
    ELSE Returned(ToolResult("content", Text("error", exception), TRUE), http)

\* the branches of unity_logs and unity_ping read the arguments with
\* arguments.get, which a value that is no dict does not have; the reply
\* of the client is rendered with json.dumps inside the try, so that an
\* exception of json.dumps is answered like one of the client
call_tool(name, arguments, outcome) ==
    IF name.t # "str" \/ name.v \notin ToolNames
    THEN Returned(ToolResult("error", Text("Unknown tool", name.v), FALSE), <<>>)
    ELSE IF name.v \in {"unity_logs", "unity_ping"} /\ arguments.t # "obj"
    THEN ToolFailure("AttributeError", <<>>)
    ELSE IF ~UrlEncodes(ToolRequest(name.v, arguments))
    THEN ToolFailure("UnicodeEncodeError", <<>>)
    ELSE IF client_request(outcome).raises # ""
    THEN ToolFailure(client_request(outcome).raises,
                     Sent(ToolRequest(name.v, arguments), outcome))
    ELSE IF outcome.dumps # ""
    THEN ToolFailure(outcome.dumps, Sent(ToolRequest(name.v, arguments), outcome))
    ELSE Returned(ToolResult("content", Text("json", client_request(outcome).value), FALSE),
                  Sent(ToolRequest(name.v, arguments), outcome))

-----------------------------------------------------------------------------
(* handle_request (server.py).                                             *)

PROTOCOL_VERSION == "2024-11-05"
SERVER_NAME == "unity-mcp"
SERVER_VERSION == "1.0.0"

InitializeResult ==
    [protocolVersion |-> PROTOCOL_VERSION, capabilities |-> {"tools"},
     serverInfo |-> [name |-> SERVER_NAME, version |-> SERVER_VERSION]]
ToolsListResult == [tools |-> TOOLS]
NoResult == [t |-> "none", v |-> ""]

RpcError(code, message) == [code |-> code, message |-> message]
NoError == RpcError(0, "")

\* a response that carries the id by its truth, not by its being there
IdKeys_Truthy(request_id) == IF Truthy(request_id) THEN {"id"} ELSE {}

\* if request_id is not None: response["id"] = request_id
IdKeys(request_id) == IF request_id.t # "null" THEN {"id"} ELSE {}

\* the response dict built at the end of handle_request
Response(request_id, result, error) ==
    [jsonrpc |-> "2.0", id |-> request_id, result |-> result, error |-> error,
     keys |-> {"jsonrpc"} \cup IdKeys(request_id)
                \cup (IF error # NoError THEN {"error"} ELSE {"result"})]

\* handle_request returned None
NoResponse ==
    [jsonrpc |-> "", id |-> Null, result |-> NoResult, error |-> NoError, keys |-> {}]

\* what a call of handle_request comes to
Handled(response, http) == [raises |-> "", response |-> response, http |-> http]

\* the tools/call branch after its two params.get: the value of call_tool
\* is the result; an exception that leaves call_tool is caught as -32603
CallResponse(request_id, r) ==
    IF r.raises # ""
    THEN Handled(Response(request_id, NoResult, RpcError(-32603, r.raises)), r.http)
    ELSE Handled(Response(request_id, r.value, NoError), r.http)

\* the try block of handle_request
HandleMethod(method, params, request_id, outcome) ==
    IF method = JsonStr("initialize")
    THEN Handled(Response(request_id, InitializeResult, NoError), <<>>)
    ELSE IF method = JsonStr("notifications/initialized")
    THEN Handled(NoResponse, <<>>)
    ELSE IF method = JsonStr("tools/list")
    THEN Handled(Response(request_id, ToolsListResult, NoError), <<>>)
    ELSE IF method = JsonStr("tools/call")
    THEN IF params.t # "obj"
         THEN Handled(Response(request_id, NoResult, RpcError(-32603, "AttributeError")),
                      <<>>)
         ELSE CallResponse(request_id,
                           call_tool(Get(params, "name", JsonStr("")),
                                     Get(params, "arguments", EmptyDict), outcome))
    ELSE IF method = JsonStr("ping")
    THEN Handled(Response(request_id, EmptyDict, NoError), <<>>)
    ELSE Handled(Response(request_id, NoResult, RpcError(-32601, method.v)), <<>>)

\* request.get on a JSON value that is no object raises before the try
handle_request(request, outcome) ==
    IF request.t # "obj"
    THEN [raises |-> "AttributeError", response |-> NoResponse, http |-> <<>>]
    ELSE HandleMethod(Get(request, "method", JsonStr("")),
                      Get(request, "params", EmptyDict),
                      Get(request, "id", Null), outcome)

-----------------------------------------------------------------------------
(* The lines the bridge is given on stdin.                                 *)

\* a line json.loads rejects (an empty line among them)
BadJsonLine == [t |-> "bad", v |-> ""]

\* the lines on which reading raises something other than JSONDecodeError:
\* an integer of more than 4300 digits (ValueError), brackets nested
\* deeper than the recursion limit (RecursionError), bytes that stdin
\* cannot decode (UnicodeDecodeError, raised by readline)
UnreadableLines ==
    {[t |-> "raises", v |-> e] : e \in {"ValueError", "RecursionError", "UnicodeDecodeError"}}

ToolCall(name, arguments, id) ==
    RequestObject(JsonStr("tools/call"), Params(name, arguments), id)

\* the single requests: every method, an unknown one, none and one that is
\* no string, with every kind of id; tools/call without params and with
\* params that are no object; every tool, an unknown tool, no name and a
\* name that is no string, without arguments; arguments of every kind for
\* the two tools that read them and for one that does not
RequestLines ==
    {RequestObject(m, Absent, id) :
        m \in {JsonStr("initialize"), JsonStr("notifications/initialized"),
               JsonStr("tools/list"), JsonStr("ping"), JsonStr("resources/list"),
               Absent, JsonNum("1")},
        id \in {Absent, Null, JsonNum("0"), JsonNum("1")}}
    \cup {RequestObject(JsonStr("tools/call"), p, id) :
             p \in {Absent, Null, JsonList, JsonStr("unity_status")},
             id \in {Null, JsonNum("1")}}
    \cup {ToolCall(n, Absent, JsonNum("1")) :
             n \in {JsonStr(t) : t \in ToolNames}
                   \cup {JsonStr("unity_build"), Absent, JsonNum("1")}}
    \cup {ToolCall(JsonStr(n), a, JsonNum("1")) :
             n \in {"unity_logs", "unity_ping", "unity_status"},
             a \in {Null, JsonList, EmptyDict,
                    Arguments(JsonNum("10"), JsonStr("error"), Absent),
                    Arguments(Absent, JsonStr(""), Absent),
                    Arguments(Absent, Absent, JsonStr("Assets/a.prefab")),
                    Arguments(Null, EmptyDict, Null),
                    Arguments(JsonNum("0"), JsonNum("0.0"), Absent),
                    Arguments(Absent, Unencodable, Unencodable)}}

\* the lines of the sessions of several lines: no JSON, an integer too long
\* to read, null, an array, a notification, a ping, a tool call and an
\* unknown method
LoopLines ==
    {BadJsonLine, [t |-> "raises", v |-> "ValueError"], Null, JsonList,
     RequestObject(JsonStr("notifications/initialized"), Absent, Absent),
     RequestObject(JsonStr("ping"), Absent, JsonNum("1")),
     ToolCall(JsonStr("unity_status"), Absent, JsonNum("0")),
     RequestObject(JsonStr("resources/list"), Absent, Absent)}

StdinInputs ==
    {<<l>> : l \in RequestLines \cup UnreadableLines} \cup UNION {[1..n -> LoopLines] : n \in 0..MaxLines}

-----------------------------------------------------------------------------
(* The bridge's main loop (server.py, main).                               *)

\* read_message: None (here Null) at end of input and for a line that is
\* no JSON, else the value json.loads returns; it catches JSONDecodeError
\* only, any other exception of readline or json.loads leaves it
read_message(stdin, pos) ==
    IF pos >= Len(stdin) THEN [raises |-> "", value |-> Null]
    ELSE IF stdin[pos + 1].t = "bad" THEN [raises |-> "", value |-> Null]
    ELSE IF stdin[pos + 1].t = "raises" THEN [raises |-> stdin[pos + 1].v, value |-> Null]
    ELSE [raises |-> "", value |-> stdin[pos + 1]]

BridgeInit ==
    /\ cmd = "mcp"
    /\ \E stdin \in StdinInputs : args = [stdin |-> stdin]
    /\ fs = <<>>
    /\ fs0 = <<>>
    /\ pc = "start"
    /\ loc = [pos |-> 0, request |-> Null, response |-> NoResponse, handled |-> <<>>,
              outcome |-> ""]
    /\ out = <<>>
    /\ err = <<>>
    /\ exit = Running
    /\ calls = <<>>
    /\ writes = <<>>

\* the banner on stderr
BridgeStart ==
    /\ cmd = "mcp" /\ pc = "start"
    /\ err' = Append(err, "Starting Unity MCP Server")
    /\ pc' = "read"
    /\ UNCHANGED <<cmd, args, fs, loc, out, exit, calls, writes, fs0>>

\* request = read_message(); if request is None: break; an exception that
\* leaves read_message ends the process with a traceback
BridgeRead ==
    /\ cmd = "mcp" /\ pc = "read"
    /\ loc' = [loc EXCEPT !.pos = IF loc.pos < Len(args.stdin) THEN loc.pos + 1 ELSE loc.pos,
                          !.request = read_message(args.stdin, loc.pos).value,
                          !.response = NoResponse,
                          !.outcome = ""]
    /\ IF read_message(args.stdin, loc.pos).raises # ""
       THEN pc' = "done" /\ exit' = 1 /\ err' = Append(err, "Traceback")
       ELSE IF read_message(args.stdin, loc.pos).value.t = "null"
       THEN pc' = "done" /\ exit' = 0 /\ UNCHANGED err
       ELSE pc' = "handle" /\ UNCHANGED <<exit, err>>
    /\ UNCHANGED <<cmd, args, fs, out, calls, writes, fs0>>

\* response = handle_request(request), the editor answering as it will; an
\* exception that leaves handle_request ends the process with a traceback
BridgeHandle ==
    /\ cmd = "mcp" /\ pc = "handle"
    /\ \E outcome \in EditorOutcomes :
          /\ loc' = [loc EXCEPT !.response = handle_request(loc.request, outcome).response,
                                !.handled = Append(loc.handled, loc.pos),
                                !.outcome = outcome]
          /\ calls' = calls \o [i \in 1..Len(handle_request(loc.request, outcome).http) |->
                                   [line |-> loc.pos,
                                    request |-> handle_request(loc.request, outcome).http[i]]]
          /\ IF handle_request(loc.request, outcome).raises # ""
             THEN /\ pc' = "done"
                  /\ exit' = 1
                  /\ err' = Append(err, "Traceback")
             ELSE /\ pc' = IF handle_request(loc.request, outcome).response = NoResponse
                           THEN "read" ELSE "write"
                  /\ UNCHANGED <<exit, err>>
    /\ UNCHANGED <<cmd, args, fs, out, writes, fs0>>

\* if response is not None: write_message(response), written and flushed
BridgeWrite ==
    /\ cmd = "mcp" /\ pc = "write"
    /\ out' = Append(out, [line |-> loc.pos, message |-> loc.response])
    /\ pc' = "read"
    /\ UNCHANGED <<cmd, args, fs, loc, err, exit, calls, writes, fs0>>

BridgeNext == BridgeStart \/ BridgeRead \/ BridgeHandle \/ BridgeWrite

BridgeSpec == BridgeInit /\ [][BridgeNext]_vars

-----------------------------------------------------------------------------
(* Properties of call_tool, seen on the line the loop has just handled.    *)

\* the line just handled is a tools/call request whose params are an object
HandledToolCall ==
    /\ cmd = "mcp" /\ pc = "write"
    /\ loc.request.t = "obj"
    /\ Get(loc.request, "method", JsonStr("")) = JsonStr("tools/call")
    /\ Get(loc.request, "params", EmptyDict).t = "obj"

CalledName == Get(Get(loc.request, "params", EmptyDict), "name", JsonStr(""))
CalledArguments == Get(Get(loc.request, "params", EmptyDict), "arguments", EmptyDict)

\* the HTTP requests sent while the current line was handled
CurrentHttp == SelectSeq(calls, LAMBDA c : c.line = loc.pos)

\* the endpoint of each tool: the HTTP method and path of the client method
\* the tool stands for
EndpointOf ==
    [unity_status |-> <<"GET", "/status">>, unity_refresh |-> <<"POST", "/refresh">>,
     unity_logs |-> <<"GET", "/logs">>, unity_clear_logs |-> <<"POST", "/logs/clear">>,
     unity_compile_status |-> <<"GET", "/compile/status">>,
     unity_play |-> <<"POST", "/play">>, unity_stop |-> <<"POST", "/stop">>,
     unity_pause |-> <<"POST", "/pause">>, unity_ping |-> <<"GET", "/ping">>,
     unity_selection |-> <<"GET", "/selection">>,
     unity_project_path |-> <<"GET", "/project/path">>,
     unity_current_scene |-> <<"GET", "/scene/current">>]

\* a request went to the named tool's endpoint and call_tool returned
EndpointAsked ==
    /\ CurrentHttp # <<>>
    /\ <<CurrentHttp[1].request.method, CurrentHttp[1].request.path>>
          = EndpointOf[CalledName.v]
    /\ "result" \in loc.response.keys

\* one request went to the named tool's endpoint, and the response carries
\* the reply as text, or a result with isError when the client raised
OneRequestAnswered ==
    /\ EndpointAsked /\ Len(CurrentHttp) = 1
    /\ IF loc.outcome.kind = "reply"
       THEN /\ loc.response.result.keys = {"content"}
            /\ loc.response.result.text = Text("json", loc.outcome.reply)
       ELSE loc.response.result.keys = {"content", "isError"}

\* no request went out and the response carries call_tool's error value
UnknownToolAnswered ==
    /\ CurrentHttp = <<>>
    /\ "result" \in loc.response.keys
    /\ loc.response.result.keys = {"error"}

\* C12 as stated: a tools/call naming one of the twelve tools sends exactly
\* one HTTP request to the tool's endpoint and answers with the reply as
\* text content, or with isError when the client raised; an unknown name
\* sends none and answers with an error value; no exception leaves
\* call_tool.
C12_OneRequestPerToolCall ==
    HandledToolCall =>
        IF CalledName.t = "str" /\ CalledName.v \in DOMAIN EndpointOf
        THEN OneRequestAnswered
        ELSE UnknownToolAnswered

\* the arguments from which the named tool cannot build its request: no
\* JSON object, or a string UTF-8 cannot encode in a place the query takes
CannotAsk ==
    \/ CalledName.v \in {"unity_logs", "unity_ping"} /\ CalledArguments.t # "obj"
    \/ /\ CalledName.v = "unity_logs"
       /\ Unencodable \in {Get(CalledArguments, "count", Absent),
                            Get(CalledArguments, "level", Absent)}
    \/ /\ CalledName.v = "unity_ping"
       /\ Get(CalledArguments, "path", Absent) = Unencodable

\* the first request went to the named tool's endpoint and every later
\* one is a GET that follows a redirect of the editor; the response
\* carries the last reply as text, or a result with isError when the
\* client raised or the reply could not be rendered as text
EndpointAskedAndAnswered ==
    /\ EndpointAsked
    /\ Len(CurrentHttp) = 1 + Len(loc.outcome.follow)
    /\ \A i \in 2..Len(CurrentHttp) :
          /\ CurrentHttp[i].request.method = "GET"
          /\ CurrentHttp[i].request.path =
                IF loc.outcome.follow[i - 1] = "" THEN CurrentHttp[1].request.path
                ELSE loc.outcome.follow[i - 1]
    /\ IF loc.outcome.kind = "reply" /\ loc.outcome.dumps = ""
       THEN /\ loc.response.result.keys = {"content"}
            /\ loc.response.result.text = Text("json", loc.outcome.reply)
       ELSE loc.response.result.keys = {"content", "isError"}

\* C12 amended: as stated, except that unity_logs and unity_ping, called
\* with arguments that are no JSON object or that hold a string UTF-8
\* cannot encode where the query takes it, send no HTTP request and answer
\* with a result that has isError true; that the one request to the
\* endpoint is followed by a GET for every redirect the editor answers
\* with; and that a reply json.dumps cannot render is answered with a
\* result that has isError true.
C12_ToolCallAsksItsEndpoint ==
    HandledToolCall =>
        IF CalledName.t = "str" /\ CalledName.v \in DOMAIN EndpointOf
        THEN IF CannotAsk
             THEN /\ CurrentHttp = <<>>
                  /\ "result" \in loc.response.keys
                  /\ loc.response.result.keys = {"content", "isError"}
             ELSE EndpointAskedAndAnswered
        ELSE UnknownToolAnswered

\* unity_logs with a count and a level, the editor failing with an error
\* that is no refused connection: one request to /logs, a result with isError
C12_Witness ==
    /\ HandledToolCall
    /\ CalledName = JsonStr("unity_logs")
    /\ CalledArguments.t = "obj" /\ "count" \in DOMAIN CalledArguments
    /\ loc.outcome.kind = "urlerror"
    /\ Len(CurrentHttp) = 1
    /\ CurrentHttp[1].request.path = "/logs"
    /\ CurrentHttp[1].request.params.level = JsonStr("error")
    /\ loc.response.result.keys = {"content", "isError"}

-----------------------------------------------------------------------------
(* Properties of handle_request and of the main loop.                      *)

\* handle_request has been called on the request object of the current line
HandledRequest ==
    /\ cmd = "mcp"
    /\ loc.handled # <<>> /\ loc.handled[Len(loc.handled)] = loc.pos
    /\ loc.request.t = "obj"

HandledMethod == Get(loc.request, "method", JsonStr(""))
HandledId == Get(loc.request, "id", Null)

KnownMethods ==
    {JsonStr("initialize"), JsonStr("notifications/initialized"), JsonStr("tools/list"),
     JsonStr("tools/call"), JsonStr("ping")}

\* C13: handle_request returns no response for notifications/initialized;
\* for every other request object it returns (it does not raise) one
\* response with jsonrpc "2.0", the request's id when that is not null, and
\* exactly one of result and error; an unknown method gives error -32601,
\* and an exception while handling (tools/call with params that are no
\* object) gives error -32603.
C13_OneWellFormedResponse ==
    HandledRequest =>
        IF HandledMethod = JsonStr("notifications/initialized")
        THEN loc.response.keys = {} /\ pc # "write" /\ exit # 1
        ELSE /\ exit # 1
             /\ "jsonrpc" \in loc.response.keys /\ loc.response.jsonrpc = "2.0"
             /\ HandledId.t # "null" =>
                   "id" \in loc.response.keys /\ loc.response.id = HandledId
             /\ ("result" \in loc.response.keys) # ("error" \in loc.response.keys)
             /\ loc.response.keys \subseteq {"jsonrpc", "id", "result", "error"}
             /\ HandledMethod \notin KnownMethods =>
                   "error" \in loc.response.keys /\ loc.response.error.code = -32601
             /\ (HandledMethod = JsonStr("tools/call")
                    /\ Get(loc.request, "params", EmptyDict).t # "obj") =>
                   "error" \in loc.response.keys /\ loc.response.error.code = -32603
             /\ Len(SelectSeq(out, LAMBDA m : m.line = loc.pos)) <= 1

\* tools/call with params null and id 1: error -32603 under that id
C13_Witness ==
    /\ HandledRequest /\ pc = "write"
    /\ HandledMethod = JsonStr("tools/call")
    /\ Get(loc.request, "params", EmptyDict).t = "null"
    /\ HandledId = JsonNum("1")
    /\ loc.response.keys = {"jsonrpc", "id", "error"}
    /\ loc.response.error.code = -32603

\* read number i yields end of input or a line that is no JSON
StopsAt(i) == i > Len(args.stdin) \/ args.stdin[i].t = "bad"

\* handle_request on line k returns a response
Responds(k) ==
    /\ args.stdin[k].t = "obj"
    /\ Get(args.stdin[k], "method", JsonStr("")) # JsonStr("notifications/initialized")

\* the lines are handled one at a time in the order read: when a line is
\* read or handled every earlier line that has a response has it on stdout
\* already, and none is there for a later line; responses are in request
\* order, at most one for a request; no line at or after the first read
\* that yields end of input or no JSON is handled
ResponsesInOrder ==
    /\ \A i \in 1..Len(loc.handled) : loc.handled[i] = i
    /\ Len(loc.handled) <= loc.pos
    /\ \A i \in 1..Len(out) :
          /\ out[i].line \in 1..Len(loc.handled) /\ Responds(out[i].line)
          /\ \A j \in 1..Len(out) : i < j => out[i].line < out[j].line
    /\ pc \in {"read", "handle"} =>
          \A k \in 1..Len(loc.handled) :
              (k < loc.pos \/ pc = "read") /\ Responds(k) =>
                  \E i \in 1..Len(out) : out[i].line = k
    /\ \A k \in 1..Len(loc.handled) : \A i \in 1..k : ~StopsAt(i)
    /\ pc = "handle" => ~StopsAt(loc.pos)

\* C14: the bridge handles its lines one at a time, each response written
\* before the next read and in request order, and its loop ends at the
\* first read that yields end of input or a line that is no JSON: when the
\* process has ended it has ended normally, every request before that read
\* has been handled and has its response on stdout if it has one, and no
\* line from that read on has been handled.
C14_LoopEndsAtFirstStop ==
    cmd = "mcp" =>
        /\ ResponsesInOrder
        /\ pc = "done" =>
              /\ exit = 0
              /\ \A k \in 1..Len(args.stdin) :
                    (args.stdin[k].t = "obj" /\ \A i \in 1..k : ~StopsAt(i)) =>
                        /\ k <= Len(loc.handled)
                        /\ Responds(k) => \E i \in 1..Len(out) : out[i].line = k

====
